---- MODULE Spec2Model ----
(***************************************************************************)
(* RedisDistributedLock (src/redis_lock_test.py) and the scenarios that    *)
(* exercise it, as a state machine.                                        *)
(*                                                                         *)
(* Every `await self.redis.<cmd>(...)` is two steps: the store executes    *)
(* the command atomically (Store... actions), and later the coroutine      *)
(* resumes with the reply (...Resume actions).  Other actors may run in    *)
(* between.  Time is a discrete clock `now`; one unit is the retry         *)
(* interval of acquire() (asyncio.sleep(0.01)), and leases are scaled to   *)
(* a few units.  A key whose lease has run out is removed by the step      *)
(* that advances the clock.                                                *)
(***************************************************************************)
EXTENDS Integers, FiniteSets, Sequences, TLC

\* ---------------------------------------------------------------- bounds
NumHandles == 3
NumCallers == 2
MaxTime == 3
Horizon == 6
LockTimeout == 2
MaxDelay == 3
MaxWait == 1
MaxAttempts == 4

\* ------------------------------------------------------ program constants
RetryInterval == 1
WorkDelay == 1

Handles == 1..NumHandles
Callers == 1..NumCallers
Keys == {"lock_a", "lock_b"}
NoValue == 0
NoTimeout == -1
\* The (blocking, timeout) arguments the free callers pass to acquire().
AcquireArgs == {<<FALSE, NoTimeout>>, <<TRUE, NoTimeout>>}
NoEntry == [value |-> NoValue, expireAt |-> 0]
\* The rooms of test_double_booking_prevention.
Rooms == {"room_000", "room_001"}
\* The state of the contention tests before any of them has started.
NoHarness ==
    [results |-> <<>>, errors |-> 0,
     booked |-> [r \in Rooms |-> 0], left |-> [r \in Rooms |-> 0],
     verdict |-> "none"]

VARIABLES
    now,          \* time.time()
    store,        \* redis: lock key -> entry (value, expiry deadline) or NoEntry
    counter,      \* redis: the counter key of the lost-update scenario
    lock_key,     \* self.lock_key
    acquired,     \* self.acquired
    pc,           \* where each actor's coroutine is suspended
    blocking,     \* acquire(blocking=...)
    wait,         \* acquire(timeout=...)
    start_time,   \* acquire: start_time
    reply,        \* acquire: the local `acquired`, the reply of SET NX
    wake,         \* when a pending asyncio.sleep ends
    ret,          \* which return of the last call was taken
    eval_saw,     \* what the handle's last release script found under the key
    lease_since,  \* key -> when its last SET NX succeeded, -1 once a release deleted it
    scoped,       \* the actor runs `async with lock:` around the counter update
    new_value,    \* increment_with_lock: new_value
    delay,        \* the duration of the body's asyncio.sleep
    exc,          \* the exception that ended the actor's `async with`
    issued,       \* key -> the tokens written under it (kept by the token scenario)
    harness       \* the contention tests: detector lists, bookings per room, verdict

vars == <<now, store, counter, lock_key, acquired, pc, blocking, wait, start_time,
          reply, wake, ret, eval_saw, lease_since, scoped, new_value, delay,
          exc, issued, harness>>

callvars == <<blocking, wait, start_time, reply, wake>>

\* ------------------------------------------------------------ the handle

\* __init__: self.lock_value = str(uuid.uuid4()), one token per handle object.
LockValueShared(h) == 1

LockValue(h) == h

\* A lease one unit shorter than asked for.
TimeoutShort(h) == LockTimeout - 1

\* A lease that outlasts the one asked for by more than a retry interval.
TimeoutLong(h) == LockTimeout + RetryInterval + 1

\* __init__: self.timeout, the lease (ex=) of the key.
Timeout(h) == LockTimeout

\* The handle's token is the value stored under its key.
Owns(h) == store[lock_key[h]].value = LockValue(h)

\* ------------------------------------------------------------- the store

\* SET key value EX ex without NX: the key is overwritten.
RedisSetAlways(key, value, ex) ==
    [ok |-> TRUE,
     store |-> [store EXCEPT ![key] = [value |-> value, expireAt |-> now + ex]]]

\* A SET NX that is refused while any key of the store is present.
RedisSetNXAnyKey(key, value, ex) ==
    IF \A k \in Keys : store[k] = NoEntry
    THEN [ok |-> TRUE,
          store |-> [store EXCEPT ![key] = [value |-> value, expireAt |-> now + ex]]]
    ELSE [ok |-> FALSE, store |-> store]

\* A SET NX that is refused on a present key but renews its time to live.
RedisSetNXRefresh(key, value, ex) ==
    IF store[key] = NoEntry
    THEN [ok |-> TRUE,
          store |-> [store EXCEPT ![key] = [value |-> value, expireAt |-> now + ex]]]
    ELSE [ok |-> FALSE, store |-> [store EXCEPT ![key].expireAt = now + ex]]

\* A SET NX that also succeeds, with a new lease, when the key already holds
\* the caller's value.
RedisSetNXOwnerPasses(key, value, ex) ==
    IF store[key] = NoEntry \/ store[key].value = value
    THEN [ok |-> TRUE,
          store |-> [store EXCEPT ![key] = [value |-> value, expireAt |-> now + ex]]]
    ELSE [ok |-> FALSE, store |-> store]

\* SET key value EX ex NX.
RedisSetNX(key, value, ex) ==
    IF store[key] = NoEntry
    THEN [ok |-> TRUE,
          store |-> [store EXCEPT ![key] = [value |-> value, expireAt |-> now + ex]]]
    ELSE [ok |-> FALSE, store |-> store]

\* DEL key whatever it holds.
RedisDelAlways(key, value) == [store EXCEPT ![key] = NoEntry]

\* A script that tests only that the key exists before deleting it.
RedisEvalDelIfPresent(key, value) ==
    IF store[key] # NoEntry
    THEN [store EXCEPT ![key] = NoEntry]
    ELSE store

\* A script that compares and returns without deleting.
RedisEvalCompareOnly(key, value) == store

\* The Lua script of release(): delete the key only if it holds `value`.
RedisEvalDel(key, value) ==
    IF store[key].value = value
    THEN [store EXCEPT ![key] = NoEntry]
    ELSE store

\* What the script's GET finds.
EvalFinds(key, value) ==
    IF store[key] = NoEntry THEN "absent"
    ELSE IF store[key].value = value THEN "own" ELSE "other"

\* Keys dropped one unit before their lease has run out.
ExpireEarly(s, t) ==
    [k \in Keys |-> IF s[k] # NoEntry /\ s[k].expireAt <= t + 1 THEN NoEntry ELSE s[k]]

\* Keys whose lease has run out at time t are gone.
Expire(s, t) ==
    [k \in Keys |-> IF s[k] # NoEntry /\ s[k].expireAt <= t THEN NoEntry ELSE s[k]]

\* ---------------------------------------------------------------- acquire

\* A test of the wait timeout that does not look at the time elapsed.
TimedOutAtOnce(h) ==
    /\ wait[h] # NoTimeout
    /\ wait[h] # 0

\* `if timeout and (time.time() - start_time) >= timeout`
TimedOut(h) ==
    /\ wait[h] # NoTimeout
    /\ wait[h] # 0
    /\ now - start_time[h] >= wait[h]

\* lock.acquire(blocking=b, timeout=w) starts: start_time is taken and the
\* first SET NX is sent.
BeginAcquire(h, b, w) ==
    /\ blocking' = [blocking EXCEPT ![h] = b]
    /\ wait' = [wait EXCEPT ![h] = w]
    /\ start_time' = [start_time EXCEPT ![h] = now]
    /\ ret' = [ret EXCEPT ![h] = "none"]
    /\ pc' = [pc EXCEPT ![h] = "acquire_set"]
    /\ eval_saw' = [eval_saw EXCEPT ![h] = "none"]
    /\ UNCHANGED <<now, store, counter, lock_key, acquired, reply, wake, lease_since,
                   scoped, new_value, delay, exc, issued, harness>>

\* A free caller calls lock.acquire(...).
CallAcquire(h) ==
    /\ pc[h] = "idle"
    /\ \E a \in AcquireArgs : BeginAcquire(h, a[1], a[2])

\* The store executes the handle's SET NX.
SetNXStep(h) ==
    /\ pc[h] = "acquire_set"
    /\ LET r == RedisSetNX(lock_key[h], LockValue(h), Timeout(h))
       IN /\ store' = r.store
          /\ reply' = [reply EXCEPT ![h] = r.ok]
          /\ lease_since' = IF r.ok THEN [lease_since EXCEPT ![lock_key[h]] = now]
                            ELSE lease_since
    /\ pc' = [pc EXCEPT ![h] = "acquire_ret"]
    /\ UNCHANGED <<now, counter, lock_key, acquired, blocking, wait, start_time, wake,
                   ret, eval_saw, scoped, new_value, delay, exc, harness>>

StoreSetNX(h) == SetNXStep(h) /\ UNCHANGED issued

\* The same step, with the token it wrote added to the key's record.
StoreSetNXRecorded(h) ==
    /\ SetNXStep(h)
    /\ issued' = IF reply'[h]
                 THEN [issued EXCEPT ![lock_key[h]] = @ \cup {LockValue(h)}]
                 ELSE issued

\* Where the coroutine goes when acquire() returns: back to the caller, or,
\* under `async with` (__aenter__ drops the result), into the body, whose
\* first command is the GET of the counter.
AfterAcquire(h) == IF scoped[h] THEN "body_get" ELSE "idle"

\* A resume without the test of `blocking`: a refused call sleeps and tries
\* again whatever its mode.
AcquireResumeAlwaysRetry(h) ==
    /\ pc[h] = "acquire_ret"
    /\ IF reply[h]
       THEN /\ acquired' = [acquired EXCEPT ![h] = TRUE]
            /\ ret' = [ret EXCEPT ![h] = "acquired"]
            /\ pc' = [pc EXCEPT ![h] = AfterAcquire(h)]
            /\ blocking' = [blocking EXCEPT ![h] = FALSE]
            /\ wait' = [wait EXCEPT ![h] = NoTimeout]
            /\ start_time' = [start_time EXCEPT ![h] = 0]
            /\ UNCHANGED <<wake, eval_saw>>
       ELSE /\ pc' = [pc EXCEPT ![h] = "acquire_sleep"]
            /\ wake' = [wake EXCEPT ![h] = now + RetryInterval]
            /\ UNCHANGED <<acquired, ret, blocking, wait, start_time, eval_saw>>
    /\ reply' = [reply EXCEPT ![h] = FALSE]
    /\ UNCHANGED <<now, store, counter, lock_key, lease_since, scoped, new_value,
                   delay, exc, issued, harness>>

\* The coroutine resumes with the reply of SET NX (lines 52-64).
AcquireResume(h) ==
    /\ pc[h] = "acquire_ret"
    /\ IF reply[h]
       THEN /\ acquired' = [acquired EXCEPT ![h] = TRUE]
            /\ ret' = [ret EXCEPT ![h] = "acquired"]
            /\ pc' = [pc EXCEPT ![h] = AfterAcquire(h)]
            /\ blocking' = [blocking EXCEPT ![h] = FALSE]
            /\ wait' = [wait EXCEPT ![h] = NoTimeout]
            /\ start_time' = [start_time EXCEPT ![h] = 0]
            /\ UNCHANGED <<wake, eval_saw>>
       ELSE IF ~blocking[h]
       THEN /\ ret' = [ret EXCEPT ![h] = "busy"]
            /\ pc' = [pc EXCEPT ![h] = AfterAcquire(h)]
            /\ wait' = [wait EXCEPT ![h] = NoTimeout]
            /\ start_time' = [start_time EXCEPT ![h] = 0]
            /\ UNCHANGED <<acquired, blocking, wake, eval_saw>>
       ELSE IF TimedOut(h)
       THEN /\ ret' = [ret EXCEPT ![h] = "timed_out"]
            /\ pc' = [pc EXCEPT ![h] = AfterAcquire(h)]
            /\ blocking' = [blocking EXCEPT ![h] = FALSE]
            /\ wait' = [wait EXCEPT ![h] = NoTimeout]
            /\ start_time' = [start_time EXCEPT ![h] = 0]
            /\ UNCHANGED <<acquired, wake, eval_saw>>
       ELSE /\ pc' = [pc EXCEPT ![h] = "acquire_sleep"]
            /\ wake' = [wake EXCEPT ![h] = now + RetryInterval]
            /\ UNCHANGED <<acquired, ret, blocking, wait, start_time, eval_saw>>
    /\ reply' = [reply EXCEPT ![h] = FALSE]
    /\ UNCHANGED <<now, store, counter, lock_key, lease_since, scoped, new_value,
                   delay, exc, issued, harness>>

\* A retry sleep that never ends.
AcquireWakeNever(h) ==
    /\ FALSE
    /\ UNCHANGED vars

\* asyncio.sleep(0.01) is over: the loop sends the next SET NX.
AcquireWake(h) ==
    /\ pc[h] = "acquire_sleep"
    /\ now >= wake[h]
    /\ pc' = [pc EXCEPT ![h] = "acquire_set"]
    /\ wake' = [wake EXCEPT ![h] = 0]
    /\ UNCHANGED <<now, store, counter, lock_key, acquired, blocking, wait, start_time,
                   reply, ret, eval_saw, lease_since, scoped, new_value, delay,
                   exc, issued, harness>>

\* ---------------------------------------------------------------- release

\* lock.release() is called: return at once when the handle's flag is not
\* set, else send the script.
CallRelease(h) ==
    /\ pc[h] = "idle"
    /\ IF ~acquired[h]
       THEN /\ ret' = [ret EXCEPT ![h] = "not_held"]
            /\ UNCHANGED pc
       ELSE /\ ret' = [ret EXCEPT ![h] = "none"]
            /\ pc' = [pc EXCEPT ![h] = "release_eval"]
    /\ eval_saw' = [eval_saw EXCEPT ![h] = "none"]
    /\ UNCHANGED <<now, store, counter, lock_key, acquired, callvars, lease_since,
                   scoped, new_value, delay, exc, issued, harness>>

\* The store runs the handle's release script, atomically.
StoreEval(h) ==
    /\ pc[h] = "release_eval"
    /\ store' = RedisEvalDel(lock_key[h], LockValue(h))
    /\ eval_saw' = [eval_saw EXCEPT ![h] = EvalFinds(lock_key[h], LockValue(h))]
    /\ lease_since' = IF store'[lock_key[h]] # store[lock_key[h]]
                      THEN [lease_since EXCEPT ![lock_key[h]] = -1]
                      ELSE lease_since
    /\ pc' = [pc EXCEPT ![h] = "release_ret"]
    /\ UNCHANGED <<now, counter, lock_key, acquired, callvars, ret, scoped,
                   new_value, delay, exc, issued, harness>>

\* A resume that clears the flag only when the script deleted the entry.
ReleaseResumeIfDeleted(h) ==
    /\ pc[h] = "release_ret"
    /\ acquired' = [acquired EXCEPT ![h] = IF eval_saw[h] = "own" THEN FALSE ELSE @]
    /\ ret' = [ret EXCEPT ![h] = "released"]
    /\ pc' = [pc EXCEPT ![h] = IF scoped[h] THEN "done" ELSE "idle"]
    /\ UNCHANGED <<now, store, counter, lock_key, callvars, eval_saw, lease_since,
                   scoped, new_value, delay, exc, issued, harness>>

\* The coroutine resumes after the script: self.acquired = False.
ReleaseResume(h) ==
    /\ pc[h] = "release_ret"
    /\ acquired' = [acquired EXCEPT ![h] = FALSE]
    /\ ret' = [ret EXCEPT ![h] = "released"]
    /\ pc' = [pc EXCEPT ![h] = IF scoped[h] THEN "done" ELSE "idle"]
    /\ UNCHANGED <<now, store, counter, lock_key, callvars, eval_saw, lease_since,
                   scoped, new_value, delay, exc, issued, harness>>

\* ------------------------------------------------------------------- time

\* The clock advances; the store drops the keys whose lease has run out.
Tick ==
    /\ now < MaxTime
    /\ now' = now + 1
    /\ store' = Expire(store, now + 1)
    /\ UNCHANGED <<counter, lock_key, acquired, pc, callvars, ret, eval_saw,
                   lease_since, scoped, new_value, delay, exc, issued, harness>>

\* ------------------------------------------------------------ free actors

\* Handles of one key, constructed; each caller is free to call acquire() and
\* release() on its handle in any order, any number of times.
Init ==
    /\ now = 0
    /\ store = [k \in Keys |-> NoEntry]
    /\ counter = 0
    /\ lock_key = [h \in Handles |-> "lock_a"]
    /\ acquired = [h \in Handles |-> FALSE]
    /\ pc = [h \in Handles |-> IF h \in Callers THEN "idle" ELSE "unused"]
    /\ blocking = [h \in Handles |-> FALSE]
    /\ wait = [h \in Handles |-> NoTimeout]
    /\ start_time = [h \in Handles |-> 0]
    /\ reply = [h \in Handles |-> FALSE]
    /\ wake = [h \in Handles |-> 0]
    /\ ret = [h \in Handles |-> "none"]
    /\ eval_saw = [h \in Handles |-> "none"]
    /\ lease_since = [k \in Keys |-> -1]
    /\ scoped = [h \in Handles |-> FALSE]
    /\ new_value = [h \in Handles |-> 0]
    /\ delay = WorkDelay
    /\ exc = [h \in Handles |-> "none"]
    /\ issued = [key \in Keys |-> {}]
    /\ harness = NoHarness

Next ==
    \/ \E h \in Handles : CallAcquire(h)
    \/ \E h \in Handles : StoreSetNX(h)
    \/ \E h \in Handles : AcquireResume(h)
    \/ \E h \in Handles : AcquireWake(h)
    \/ \E h \in Handles : CallRelease(h)
    \/ \E h \in Handles : StoreEval(h)
    \/ \E h \in Handles : ReleaseResume(h)
    \/ Tick

Spec == Init /\ [][Next]_vars

\* ------------------------------------------- the protected counter update

\* increment_with_lock, inside `async with lock:`.  The store answers the GET
\* of the counter; the coroutine computes new_value = int(value) + 1 and goes
\* to asyncio.sleep (a resume that touches only locals is folded into the
\* store's step).
StoreGet(h) ==
    /\ pc[h] = "body_get"
    /\ new_value' = [new_value EXCEPT ![h] = counter + 1]
    /\ wake' = [wake EXCEPT ![h] = now + delay]
    /\ pc' = [pc EXCEPT ![h] = "body_sleep"]
    /\ UNCHANGED <<now, store, counter, lock_key, acquired, blocking, wait, start_time,
                   reply, ret, eval_saw, lease_since, scoped, delay,
                   exc, issued, harness>>

\* The body's sleep is over: the SET of the counter is sent.
BodyWake(h) ==
    /\ pc[h] = "body_sleep"
    /\ now >= wake[h]
    /\ pc' = [pc EXCEPT ![h] = "body_set"]
    /\ wake' = [wake EXCEPT ![h] = 0]
    /\ UNCHANGED <<now, store, counter, lock_key, acquired, blocking, wait, start_time,
                   reply, ret, eval_saw, lease_since, scoped, new_value, delay,
                   exc, issued, harness>>

\* The store executes redis.set(counter_key, str(new_value)); the body ends
\* and __aexit__ calls release(), which returns at once when the flag is not
\* set and sends the script otherwise.
StoreSetCounter(h) ==
    /\ pc[h] = "body_set"
    /\ counter' = new_value[h]
    /\ new_value' = [new_value EXCEPT ![h] = 0]
    /\ IF acquired[h]
       THEN /\ pc' = [pc EXCEPT ![h] = "release_eval"]
            /\ ret' = [ret EXCEPT ![h] = "none"]
       ELSE /\ pc' = [pc EXCEPT ![h] = "done"]
            /\ ret' = [ret EXCEPT ![h] = "not_held"]
    /\ UNCHANGED <<now, store, lock_key, acquired, callvars, eval_saw, lease_since,
                   scoped, delay, exc, issued, harness>>

\* An actor that has a step to take now: a command at the store, a reply to
\* resume with, or a sleep that is over.
Due(h) ==
    \/ pc[h] \in {"acquire_set", "acquire_ret", "release_eval", "release_ret",
                  "body_get", "body_set"}
    \/ pc[h] \in {"acquire_sleep", "body_sleep"} /\ wake[h] <= now

\* The clock of the timed scenarios: commands and resumes take no time and a
\* sleep ends when it is due, so time passes only when no actor has a step.
TickUrgent ==
    /\ now < Horizon
    /\ \A h \in Handles : ~Due(h)
    /\ now' = now + 1
    /\ store' = Expire(store, now + 1)
    /\ UNCHANGED <<counter, lock_key, acquired, pc, callvars, ret, eval_saw,
                   lease_since, scoped, new_value, delay, exc, issued, harness>>

\* The workers with an __aenter__ that calls acquire(blocking=False).
InitWorkersNonBlocking(d) ==
    /\ now = 0
    /\ store = [k \in Keys |-> NoEntry]
    /\ counter = 0
    /\ lock_key = [h \in Handles |-> "lock_a"]
    /\ acquired = [h \in Handles |-> FALSE]
    /\ pc = [h \in Handles |-> "acquire_set"]
    /\ blocking = [h \in Handles |-> FALSE]
    /\ wait = [h \in Handles |-> NoTimeout]
    /\ start_time = [h \in Handles |-> 0]
    /\ reply = [h \in Handles |-> FALSE]
    /\ wake = [h \in Handles |-> 0]
    /\ ret = [h \in Handles |-> "none"]
    /\ eval_saw = [h \in Handles |-> "none"]
    /\ lease_since = [k \in Keys |-> -1]
    /\ scoped = [h \in Handles |-> TRUE]
    /\ new_value = [h \in Handles |-> 0]
    /\ delay = d
    /\ exc = [h \in Handles |-> "none"]
    /\ issued = [key \in Keys |-> {}]
    /\ harness = NoHarness

\* asyncio.gather(*[increment_with_lock(...)]): every worker has entered
\* `async with lock`, whose acquire() (blocking, no wait timeout) has sent its
\* first SET NX; the counter was set to 0.
InitWorkers(d) ==
    /\ now = 0
    /\ store = [k \in Keys |-> NoEntry]
    /\ counter = 0
    /\ lock_key = [h \in Handles |-> "lock_a"]
    /\ acquired = [h \in Handles |-> FALSE]
    /\ pc = [h \in Handles |-> "acquire_set"]
    /\ blocking = [h \in Handles |-> TRUE]
    /\ wait = [h \in Handles |-> NoTimeout]
    /\ start_time = [h \in Handles |-> 0]
    /\ reply = [h \in Handles |-> FALSE]
    /\ wake = [h \in Handles |-> 0]
    /\ ret = [h \in Handles |-> "none"]
    /\ eval_saw = [h \in Handles |-> "none"]
    /\ lease_since = [k \in Keys |-> -1]
    /\ scoped = [h \in Handles |-> TRUE]
    /\ new_value = [h \in Handles |-> 0]
    /\ delay = d
    /\ exc = [h \in Handles |-> "none"]
    /\ issued = [key \in Keys |-> {}]
    /\ harness = NoHarness

NextWorkers ==
    \/ \E h \in Handles : StoreSetNX(h)
    \/ \E h \in Handles : AcquireResume(h)
    \/ \E h \in Handles : AcquireWake(h)
    \/ \E h \in Handles : StoreGet(h)
    \/ \E h \in Handles : BodyWake(h)
    \/ \E h \in Handles : StoreSetCounter(h)
    \/ \E h \in Handles : StoreEval(h)
    \/ \E h \in Handles : ReleaseResume(h)
    \/ TickUrgent

\* The tests' scenario: the body sleeps 0.01 s under a lease of seconds.
InitProtected == InitWorkers(WorkDelay)

SpecProtected == InitProtected /\ [][NextWorkers]_vars

\* The same workers with a body of any duration, shorter or longer than the
\* lease.
InitLongBody == \E d \in 1..MaxDelay : InitWorkers(d)

SpecLongBody == InitLongBody /\ [][NextWorkers]_vars

\* -------------------------------------- concurrent non-blocking acquires

\* Every actor holds a fresh handle of the same absent key and is about to
\* call acquire(blocking=False).
InitContend ==
    /\ now = 0
    /\ store = [k \in Keys |-> NoEntry]
    /\ counter = 0
    /\ lock_key = [h \in Handles |-> "lock_a"]
    /\ acquired = [h \in Handles |-> FALSE]
    /\ pc = [h \in Handles |-> "start"]
    /\ blocking = [h \in Handles |-> FALSE]
    /\ wait = [h \in Handles |-> NoTimeout]
    /\ start_time = [h \in Handles |-> 0]
    /\ reply = [h \in Handles |-> FALSE]
    /\ wake = [h \in Handles |-> 0]
    /\ ret = [h \in Handles |-> "none"]
    /\ eval_saw = [h \in Handles |-> "none"]
    /\ lease_since = [k \in Keys |-> -1]
    /\ scoped = [h \in Handles |-> FALSE]
    /\ new_value = [h \in Handles |-> 0]
    /\ delay = WorkDelay
    /\ exc = [h \in Handles |-> "none"]
    /\ issued = [key \in Keys |-> {}]
    /\ harness = NoHarness

\* The actor's one call: acquire(blocking=False).
ContendAcquire(h) ==
    /\ pc[h] = "start"
    /\ BeginAcquire(h, FALSE, NoTimeout)

\* Time passes while no lease runs out.
TickBeforeExpiry ==
    /\ Tick
    /\ store' = store

NextContend ==
    \/ \E h \in Handles : ContendAcquire(h)
    \/ \E h \in Handles : StoreSetNX(h)
    \/ \E h \in Handles : AcquireResume(h)
    \/ TickBeforeExpiry

SpecContend == InitContend /\ [][NextContend]_vars

\* ----------------------------------------------------- a crashed holder

\* One handle has sent the SET NX of acquire(blocking=False) and makes no
\* call after it (the holder that never releases); another actor calls
\* acquire(blocking=True) on a second handle of the key at a time of its
\* choice and stays in the retry loop.
InitRecovery ==
    \E holder \in Handles : \E retrier \in Handles \ {holder} :
        /\ now = 0
        /\ store = [k \in Keys |-> NoEntry]
        /\ counter = 0
        /\ lock_key = [h \in Handles |-> "lock_a"]
        /\ acquired = [h \in Handles |-> FALSE]
        /\ pc = [h \in Handles |-> IF h = holder THEN "acquire_set"
                                   ELSE IF h = retrier THEN "start" ELSE "unused"]
        /\ blocking = [h \in Handles |-> FALSE]
        /\ wait = [h \in Handles |-> NoTimeout]
        /\ start_time = [h \in Handles |-> 0]
        /\ reply = [h \in Handles |-> FALSE]
        /\ wake = [h \in Handles |-> 0]
        /\ ret = [h \in Handles |-> "none"]
        /\ eval_saw = [h \in Handles |-> "none"]
        /\ lease_since = [k \in Keys |-> -1]
        /\ scoped = [h \in Handles |-> FALSE]
        /\ new_value = [h \in Handles |-> 0]
        /\ delay = WorkDelay
        /\ exc = [h \in Handles |-> "none"]
        /\ issued = [key \in Keys |-> {}]
        /\ harness = NoHarness

\* The second actor calls acquire(blocking=True), no wait timeout.
RetryAcquire(h) ==
    /\ pc[h] = "start"
    /\ BeginAcquire(h, TRUE, NoTimeout)

NextRecovery ==
    \/ \E h \in Handles : RetryAcquire(h)
    \/ \E h \in Handles : StoreSetNX(h)
    \/ \E h \in Handles : AcquireResume(h)
    \/ \E h \in Handles : AcquireWake(h)
    \/ TickUrgent

\* The store serves every command sent to it, the event loop resumes every
\* coroutine that has a reply or whose sleep is over, and time passes.
SpecRecovery ==
    /\ InitRecovery
    /\ [][NextRecovery]_vars
    /\ \A h \in Handles : WF_vars(StoreSetNX(h))
    /\ \A h \in Handles : WF_vars(AcquireResume(h))
    /\ \A h \in Handles : WF_vars(AcquireWake(h))
    /\ WF_vars(TickUrgent)

\* ------------------------------------------- a body that raises an error

\* An exception that leaves the `async with` block without __aexit__.
BodyRaiseSkipsExit(h) ==
    /\ pc[h] \in {"body_get", "body_sleep", "body_set"}
    /\ exc' = [exc EXCEPT ![h] = "body"]
    /\ new_value' = [new_value EXCEPT ![h] = 0]
    /\ wake' = [wake EXCEPT ![h] = 0]
    /\ pc' = [pc EXCEPT ![h] = "done"]
    /\ UNCHANGED <<now, store, counter, lock_key, acquired, blocking, wait, start_time,
                   reply, ret, eval_saw, lease_since, scoped, delay, issued, harness>>

\* An await of the body raises (the counter's GET or SET fails, the sleep is
\* interrupted by an error): the write is not made, `async with` calls
\* __aexit__ with the exception, and __aexit__ calls release(), which returns
\* at once when the flag is not set and sends the script otherwise.  The
\* exception goes on to the caller when __aexit__ has returned.
BodyRaise(h) ==
    /\ pc[h] \in {"body_get", "body_sleep", "body_set"}
    /\ exc' = [exc EXCEPT ![h] = "body"]
    /\ new_value' = [new_value EXCEPT ![h] = 0]
    /\ wake' = [wake EXCEPT ![h] = 0]
    /\ IF acquired[h]
       THEN /\ pc' = [pc EXCEPT ![h] = "release_eval"]
            /\ ret' = [ret EXCEPT ![h] = "none"]
       ELSE /\ pc' = [pc EXCEPT ![h] = "done"]
            /\ ret' = [ret EXCEPT ![h] = "not_held"]
    /\ UNCHANGED <<now, store, counter, lock_key, acquired, blocking, wait, start_time,
                   reply, eval_saw, lease_since, scoped, delay, issued, harness>>

\* The workers of the counter update, each body free to end with its write
\* or with an exception.
NextScoped ==
    \/ NextWorkers
    \/ \E h \in Handles : BodyRaise(h)

SpecScoped == InitLongBody /\ [][NextScoped]_vars

\* ----------------------------------------------------- a cancelled actor

\* The actor's task is cancelled while it is suspended inside acquire(), at
\* the SET NX or at the retry sleep: CancelledError is raised at the await,
\* acquire() has no handler, so line 53 is not reached and the flag stays;
\* the exception leaves __aenter__, the block is not entered and __aexit__
\* is not called.  A command the store has not executed yet is dropped (a
\* command executed although the task is gone is the cancellation that
\* arrives after StoreSetNX).
CancelAcquire(h) ==
    /\ pc[h] \in {"acquire_set", "acquire_ret", "acquire_sleep"}
    /\ exc' = [exc EXCEPT ![h] = "cancel"]
    /\ pc' = [pc EXCEPT ![h] = IF scoped[h] THEN "done" ELSE "idle"]
    /\ blocking' = [blocking EXCEPT ![h] = FALSE]
    /\ wait' = [wait EXCEPT ![h] = NoTimeout]
    /\ start_time' = [start_time EXCEPT ![h] = 0]
    /\ reply' = [reply EXCEPT ![h] = FALSE]
    /\ wake' = [wake EXCEPT ![h] = 0]
    /\ UNCHANGED <<now, store, counter, lock_key, acquired, ret, eval_saw, lease_since,
                   scoped, new_value, delay, issued, harness>>

\* The task is cancelled while suspended in the body: CancelledError is
\* raised there and `async with` calls __aexit__, hence release().
CancelBody(h) ==
    /\ pc[h] \in {"body_get", "body_sleep", "body_set"}
    /\ exc' = [exc EXCEPT ![h] = "cancel"]
    /\ new_value' = [new_value EXCEPT ![h] = 0]
    /\ wake' = [wake EXCEPT ![h] = 0]
    /\ IF acquired[h]
       THEN /\ pc' = [pc EXCEPT ![h] = "release_eval"]
            /\ ret' = [ret EXCEPT ![h] = "none"]
       ELSE /\ pc' = [pc EXCEPT ![h] = "done"]
            /\ ret' = [ret EXCEPT ![h] = "not_held"]
    /\ UNCHANGED <<now, store, counter, lock_key, acquired, blocking, wait, start_time,
                   reply, eval_saw, lease_since, scoped, delay, issued, harness>>

\* The task is cancelled while suspended at the script of release():
\* CancelledError leaves release() before line 81, the flag stays set.
CancelRelease(h) ==
    /\ pc[h] \in {"release_eval", "release_ret"}
    /\ exc' = [exc EXCEPT ![h] = "cancel"]
    /\ pc' = [pc EXCEPT ![h] = IF scoped[h] THEN "done" ELSE "idle"]
    /\ UNCHANGED <<now, store, counter, lock_key, acquired, callvars, ret, eval_saw,
                   lease_since, scoped, new_value, delay, issued, harness>>

\* The workers of the counter update, each of which may be cancelled at any
\* await.
NextCancel ==
    \/ NextScoped
    \/ \E h \in Handles : CancelAcquire(h)
    \/ \E h \in Handles : CancelBody(h)
    \/ \E h \in Handles : CancelRelease(h)

SpecCancel == InitLongBody /\ [][NextCancel]_vars

\* ------------------------------------- acquire() with all its arguments

\* The wait timeouts passed as acquire(timeout=...): 0 and up.
WaitTimeouts == 0..MaxWait

\* acquire(blocking=False), acquire(blocking=True) and
\* acquire(blocking=True, timeout=w).
AcquireArgsTimed == AcquireArgs \cup {<<TRUE, w>> : w \in WaitTimeouts}

\* The first actor's one call of acquire(), with any of the arguments.
FirstAcquire(h) ==
    /\ pc[h] = "start"
    /\ \E a \in AcquireArgsTimed : BeginAcquire(h, a[1], a[2])

\* The second actor calls lock.acquire(...) with any of the arguments.
CallAcquireTimed(h) ==
    /\ pc[h] = "idle"
    /\ \E a \in AcquireArgsTimed : BeginAcquire(h, a[1], a[2])

\* The store cannot be reached: the handle's SET NX is not executed and the
\* client fails the call.
StoreUnreachable(h) ==
    /\ pc[h] = "acquire_set"
    /\ pc' = [pc EXCEPT ![h] = "acquire_err"]
    /\ UNCHANGED <<now, store, counter, lock_key, acquired, callvars, ret, eval_saw,
                   lease_since, scoped, new_value, delay, exc, issued, harness>>

\* An acquire() that catches the client's error and goes on as after a
\* refused SET NX.
AcquireRaiseAsDenied(h) ==
    /\ pc[h] = "acquire_err"
    /\ IF ~blocking[h]
       THEN /\ ret' = [ret EXCEPT ![h] = "busy"]
            /\ pc' = [pc EXCEPT ![h] = "idle"]
            /\ UNCHANGED wake
       ELSE /\ pc' = [pc EXCEPT ![h] = "acquire_sleep"]
            /\ wake' = [wake EXCEPT ![h] = now + RetryInterval]
            /\ UNCHANGED ret
    /\ UNCHANGED <<now, store, counter, lock_key, acquired, blocking, wait, start_time,
                   reply, eval_saw, lease_since, scoped, new_value, delay,
                   exc, issued, harness>>

\* The coroutine resumes with the client's exception at the await of lines
\* 45-50; acquire() has no handler around it, so the exception leaves the
\* loop and the call.
AcquireRaise(h) ==
    /\ pc[h] = "acquire_err"
    /\ ret' = [ret EXCEPT ![h] = "raised"]
    /\ pc' = [pc EXCEPT ![h] = "idle"]
    /\ UNCHANGED <<now, store, counter, lock_key, acquired, callvars, eval_saw,
                   lease_since, scoped, new_value, delay, exc, issued, harness>>

\* Two actors hold a handle each of the same absent key.  The first calls
\* acquire() once and makes no call after it; the second calls acquire() any
\* number of times.  Both choose the time and the arguments, and the store
\* may be unreachable for any of the calls.
InitAcquire ==
    \E first \in Handles : \E second \in Handles \ {first} :
        /\ now = 0
        /\ store = [k \in Keys |-> NoEntry]
        /\ counter = 0
        /\ lock_key = [h \in Handles |-> "lock_a"]
        /\ acquired = [h \in Handles |-> FALSE]
        /\ pc = [h \in Handles |-> IF h = first THEN "start"
                                   ELSE IF h = second THEN "idle" ELSE "unused"]
        /\ blocking = [h \in Handles |-> FALSE]
        /\ wait = [h \in Handles |-> NoTimeout]
        /\ start_time = [h \in Handles |-> 0]
        /\ reply = [h \in Handles |-> FALSE]
        /\ wake = [h \in Handles |-> 0]
        /\ ret = [h \in Handles |-> "none"]
        /\ eval_saw = [h \in Handles |-> "none"]
        /\ lease_since = [k \in Keys |-> -1]
        /\ scoped = [h \in Handles |-> FALSE]
        /\ new_value = [h \in Handles |-> 0]
        /\ delay = WorkDelay
        /\ exc = [h \in Handles |-> "none"]
        /\ issued = [key \in Keys |-> {}]
        /\ harness = NoHarness

NextAcquire ==
    \/ \E h \in Handles : FirstAcquire(h)
    \/ \E h \in Handles : CallAcquireTimed(h)
    \/ \E h \in Handles : StoreSetNX(h)
    \/ \E h \in Handles : StoreUnreachable(h)
    \/ \E h \in Handles : AcquireRaise(h)
    \/ \E h \in Handles : AcquireResume(h)
    \/ \E h \in Handles : AcquireWake(h)
    \/ Tick

SpecAcquire == InitAcquire /\ [][NextAcquire]_vars

\* ------------------------------------------------------ more than one key

\* Two actors, free to call acquire() and release() as in Spec; the first
\* holds a handle of lock_a, the second a handle of lock_a or of lock_b.
InitTwoKeys ==
    \E first \in Handles : \E second \in Handles \ {first} : \E k \in Keys :
        /\ now = 0
        /\ store = [key \in Keys |-> NoEntry]
        /\ counter = 0
        /\ lock_key = [h \in Handles |-> IF h = second THEN k ELSE "lock_a"]
        /\ acquired = [h \in Handles |-> FALSE]
        /\ pc = [h \in Handles |-> IF h \in {first, second} THEN "idle" ELSE "unused"]
        /\ blocking = [h \in Handles |-> FALSE]
        /\ wait = [h \in Handles |-> NoTimeout]
        /\ start_time = [h \in Handles |-> 0]
        /\ reply = [h \in Handles |-> FALSE]
        /\ wake = [h \in Handles |-> 0]
        /\ ret = [h \in Handles |-> "none"]
        /\ eval_saw = [h \in Handles |-> "none"]
        /\ lease_since = [key \in Keys |-> -1]
        /\ scoped = [h \in Handles |-> FALSE]
        /\ new_value = [h \in Handles |-> 0]
        /\ delay = WorkDelay
        /\ exc = [h \in Handles |-> "none"]
        /\ issued = [key \in Keys |-> {}]
        /\ harness = NoHarness

SpecTwoKeys == InitTwoKeys /\ [][Next]_vars

\* ------------------------------------------- workers under a fair loop

\* asyncio.gather of workers that each run one `async with lock` on the key
\* of their choice, with the short body of the tests.
InitKeyedWorkers ==
    \E keys \in [Handles -> Keys] :
        /\ now = 0
        /\ store = [k \in Keys |-> NoEntry]
        /\ counter = 0
        /\ lock_key = keys
        /\ acquired = [h \in Handles |-> FALSE]
        /\ pc = [h \in Handles |-> "acquire_set"]
        /\ blocking = [h \in Handles |-> TRUE]
        /\ wait = [h \in Handles |-> NoTimeout]
        /\ start_time = [h \in Handles |-> 0]
        /\ reply = [h \in Handles |-> FALSE]
        /\ wake = [h \in Handles |-> 0]
        /\ ret = [h \in Handles |-> "none"]
        /\ eval_saw = [h \in Handles |-> "none"]
        /\ lease_since = [k \in Keys |-> -1]
        /\ scoped = [h \in Handles |-> TRUE]
        /\ new_value = [h \in Handles |-> 0]
        /\ delay = WorkDelay
        /\ exc = [h \in Handles |-> "none"]
        /\ issued = [key \in Keys |-> {}]
        /\ harness = NoHarness

\* The store serves every command sent to it, the event loop resumes every
\* coroutine that has a reply or whose sleep is over, and time passes.
SpecFairWorkers ==
    /\ InitKeyedWorkers
    /\ [][NextWorkers]_vars
    /\ \A h \in Handles : WF_vars(StoreSetNX(h))
    /\ \A h \in Handles : WF_vars(AcquireResume(h))
    /\ \A h \in Handles : WF_vars(AcquireWake(h))
    /\ \A h \in Handles : WF_vars(StoreGet(h))
    /\ \A h \in Handles : WF_vars(BodyWake(h))
    /\ \A h \in Handles : WF_vars(StoreSetCounter(h))
    /\ \A h \in Handles : WF_vars(StoreEval(h))
    /\ \A h \in Handles : WF_vars(ReleaseResume(h))
    /\ WF_vars(TickUrgent)

\* --------------------------------------------- the tokens a key has seen

\* The free callers of Spec, with every token written under a key recorded.
NextTokens ==
    \/ \E h \in Handles : CallAcquire(h)
    \/ \E h \in Handles : StoreSetNXRecorded(h)
    \/ \E h \in Handles : AcquireResume(h)
    \/ \E h \in Handles : AcquireWake(h)
    \/ \E h \in Handles : CallRelease(h)
    \/ \E h \in Handles : StoreEval(h)
    \/ \E h \in Handles : ReleaseResume(h)
    \/ Tick

SpecTokens == Init /\ [][NextTokens]_vars

\* ----------------------------------------- the unprotected counter update

\* increment_without_lock: the store answers the GET of the counter; the
\* coroutine computes new_value = int(value) + 1 and goes to asyncio.sleep.
UnsafeGet(h) ==
    /\ pc[h] = "unsafe_get"
    /\ new_value' = [new_value EXCEPT ![h] = counter + 1]
    /\ wake' = [wake EXCEPT ![h] = now + delay]
    /\ pc' = [pc EXCEPT ![h] = "unsafe_sleep"]
    /\ UNCHANGED <<now, store, counter, lock_key, acquired, blocking, wait, start_time,
                   reply, ret, eval_saw, lease_since, scoped, delay,
                   exc, issued, harness>>

\* The sleep is over: the SET of the counter is sent.
UnsafeWake(h) ==
    /\ pc[h] = "unsafe_sleep"
    /\ now >= wake[h]
    /\ pc' = [pc EXCEPT ![h] = "unsafe_set"]
    /\ wake' = [wake EXCEPT ![h] = 0]
    /\ UNCHANGED <<now, store, counter, lock_key, acquired, blocking, wait, start_time,
                   reply, ret, eval_saw, lease_since, scoped, new_value, delay, exc,
                   issued, harness>>

\* The SET sent as an increment of the stored value by new_value.
UnsafeSetIncrBy(h) ==
    /\ pc[h] = "unsafe_set"
    /\ counter' = counter + new_value[h]
    /\ new_value' = [new_value EXCEPT ![h] = 0]
    /\ pc' = [pc EXCEPT ![h] = "done"]
    /\ UNCHANGED <<now, store, lock_key, acquired, callvars, ret, eval_saw, lease_since,
                   scoped, delay, exc, issued, harness>>

\* The store executes redis.set(counter_key, str(new_value)); the worker is
\* done.
UnsafeSet(h) ==
    /\ pc[h] = "unsafe_set"
    /\ counter' = new_value[h]
    /\ new_value' = [new_value EXCEPT ![h] = 0]
    /\ pc' = [pc EXCEPT ![h] = "done"]
    /\ UNCHANGED <<now, store, lock_key, acquired, callvars, ret, eval_saw, lease_since,
                   scoped, delay, exc, issued, harness>>

\* asyncio.gather(*[increment_without_lock(...)]): the counter was set to 0
\* and every worker has sent its GET.
InitUnprotected ==
    /\ now = 0
    /\ store = [k \in Keys |-> NoEntry]
    /\ counter = 0
    /\ lock_key = [h \in Handles |-> "lock_a"]
    /\ acquired = [h \in Handles |-> FALSE]
    /\ pc = [h \in Handles |-> "unsafe_get"]
    /\ blocking = [h \in Handles |-> FALSE]
    /\ wait = [h \in Handles |-> NoTimeout]
    /\ start_time = [h \in Handles |-> 0]
    /\ reply = [h \in Handles |-> FALSE]
    /\ wake = [h \in Handles |-> 0]
    /\ ret = [h \in Handles |-> "none"]
    /\ eval_saw = [h \in Handles |-> "none"]
    /\ lease_since = [k \in Keys |-> -1]
    /\ scoped = [h \in Handles |-> FALSE]
    /\ new_value = [h \in Handles |-> 0]
    /\ delay = WorkDelay
    /\ exc = [h \in Handles |-> "none"]
    /\ issued = [key \in Keys |-> {}]
    /\ harness = NoHarness

\* The store serves the workers' commands in any order and after any delay.
NextUnprotected ==
    \/ \E h \in Handles : UnsafeGet(h)
    \/ \E h \in Handles : UnsafeWake(h)
    \/ \E h \in Handles : UnsafeSet(h)
    \/ Tick

SpecUnprotected == InitUnprotected /\ [][NextUnprotected]_vars

\* ------------------------------------------- the double-booking harness

\* users_per_room: the users that try to book each room.
UsersPerRoom == NumHandles

\* What a request to the application ends with: status 200, any other
\* status, or an exception of the client.
Outcomes == {"ok", "conflict", "error"}

\* book_room returns: a dict with success = (status_code == 200), or, from
\* the except branch, a dict with success = False; the harness counts the
\* successful dicts of each room (lines 271-273).
BookRoom(room, outcome) ==
    /\ harness.verdict = "none"
    /\ harness.left[room] > 0
    /\ harness' = [harness EXCEPT
                      !.left[room] = @ - 1,
                      !.booked[room] = IF outcome = "ok" THEN @ + 1 ELSE @]
    /\ UNCHANGED <<now, store, counter, lock_key, acquired, pc, callvars, ret, eval_saw,
                   lease_since, scoped, new_value, delay, exc, issued>>

\* All tasks have returned: double_bookings lists the rooms with more than
\* one success and the test asserts that the list is empty.
AssessBookings ==
    /\ harness.verdict = "none"
    /\ \A room \in Rooms : harness.left[room] = 0
    /\ harness' = [harness EXCEPT
                      !.verdict = IF \E room \in Rooms : harness.booked[room] > 1
                                  THEN "fail" ELSE "pass"]
    /\ UNCHANGED <<now, store, counter, lock_key, acquired, pc, callvars, ret, eval_saw,
                   lease_since, scoped, new_value, delay, exc, issued>>

\* test_double_booking_prevention: every room has its users' requests out.
InitBooking ==
    /\ now = 0
    /\ store = [k \in Keys |-> NoEntry]
    /\ counter = 0
    /\ lock_key = [h \in Handles |-> "lock_a"]
    /\ acquired = [h \in Handles |-> FALSE]
    /\ pc = [h \in Handles |-> "unused"]
    /\ blocking = [h \in Handles |-> FALSE]
    /\ wait = [h \in Handles |-> NoTimeout]
    /\ start_time = [h \in Handles |-> 0]
    /\ reply = [h \in Handles |-> FALSE]
    /\ wake = [h \in Handles |-> 0]
    /\ ret = [h \in Handles |-> "none"]
    /\ eval_saw = [h \in Handles |-> "none"]
    /\ lease_since = [k \in Keys |-> -1]
    /\ scoped = [h \in Handles |-> FALSE]
    /\ new_value = [h \in Handles |-> 0]
    /\ delay = WorkDelay
    /\ exc = [h \in Handles |-> "none"]
    /\ issued = [key \in Keys |-> {}]
    /\ harness = [NoHarness EXCEPT !.left = [r \in Rooms |-> UsersPerRoom]]

NextBooking ==
    \/ \E room \in Rooms : \E outcome \in Outcomes : BookRoom(room, outcome)
    \/ AssessBookings

SpecBooking == InitBooking /\ [][NextBooking]_vars

\* ------------------------------------------- the race-condition detector

\* r.get("success") as the filter of analyze reads it: the value of the
\* key, and None, which is falsy, when the dict has no such key.
GetSuccess(r) == IF "success" \in DOMAIN r THEN r.success ELSE FALSE

\* len([r for r in self.results if r.get("success")]).
RECURSIVE CountSuccessful(_)
CountSuccessful(results) ==
    IF results = <<>> THEN 0
    ELSE (IF GetSuccess(Head(results)) THEN 1 ELSE 0) + CountSuccessful(Tail(results))

\* analyze() with the race flag raised by the first success.
ReportAnySuccess(results, errors) ==
    LET successful == CountSuccessful(results)
        failed == Len(results) - successful
    IN  [total_attempts |-> Len(results) + errors,
         successful |-> successful,
         failed |-> failed,
         exceptions |-> errors,
         race_conditions_detected |-> successful >= 1]

\* The dict analyze() builds, without its error_rate.
Report(results, errors) ==
    LET successful == CountSuccessful(results)
        failed == Len(results) - successful
    IN  [total_attempts |-> Len(results) + errors,
         successful |-> successful,
         failed |-> failed,
         exceptions |-> errors,
         race_conditions_detected |-> successful > 1]

\* analyze(): error_rate divides by the number of attempts, so the call
\* raises ZeroDivisionError when nothing was recorded; otherwise the rate is
\* the pair <<numerator, denominator>>.
Analyze(results, errors) ==
    IF Len(results) + errors = 0
    THEN [raised |-> "ZeroDivisionError"]
    ELSE [raised |-> "none",
          report |-> Report(results, errors),
          error_rate |-> <<Report(results, errors).failed + errors, Len(results) + errors>>]

\* add_result: append the dict.
AddResult(h, result) == [h EXCEPT !.results = Append(@, result)]

\* add_error: append the exception (the model keeps their number).
AddError(h) == [h EXCEPT !.errors = @ + 1]

\* ------------------------------------------- the reservation harness

\* reserve_room with the except branch recording a failed result as well.
ReserveRoomErrorAsResult(h, outcome) ==
    /\ pc[h] = "post"
    /\ harness.verdict = "none"
    /\ harness' = IF outcome = "error"
                  THEN AddError(AddResult(harness, [user_id |-> h, success |-> FALSE]))
                  ELSE AddResult(harness, [user_id |-> h, success |-> (outcome = "ok")])
    /\ exc' = [exc EXCEPT ![h] = IF outcome = "error" THEN "request" ELSE @]
    /\ pc' = [pc EXCEPT ![h] = "recorded"]
    /\ UNCHANGED <<now, store, counter, lock_key, acquired, callvars, ret, eval_saw,
                   lease_since, scoped, new_value, delay, issued>>

\* reserve_room(user_id): the request ends with status 200, with another
\* status, or with an exception; the first two add a result with success =
\* (status_code == 200), the third adds the error and nothing else.
ReserveRoom(h, outcome) ==
    /\ pc[h] = "post"
    /\ harness.verdict = "none"
    /\ harness' = IF outcome = "error"
                  THEN AddError(harness)
                  ELSE AddResult(harness, [user_id |-> h, success |-> (outcome = "ok")])
    /\ exc' = [exc EXCEPT ![h] = IF outcome = "error" THEN "request" ELSE @]
    /\ pc' = [pc EXCEPT ![h] = "recorded"]
    /\ UNCHANGED <<now, store, counter, lock_key, acquired, callvars, ret, eval_saw,
                   lease_since, scoped, new_value, delay, issued>>

\* After gather: analyze() and the two assertions of the test.
AssessReservation ==
    /\ harness.verdict = "none"
    /\ \A h \in Handles : pc[h] = "recorded"
    /\ LET analysis == Analyze(harness.results, harness.errors)
       IN  harness' = [harness EXCEPT
                          !.verdict =
                              IF analysis.raised # "none" THEN "raised"
                              ELSE IF /\ analysis.report.successful = 1
                                      /\ analysis.report.failed =
                                            NumHandles - 1 - analysis.report.exceptions
                                   THEN "pass" ELSE "fail"]
    /\ UNCHANGED <<now, store, counter, lock_key, acquired, pc, callvars, ret, eval_saw,
                   lease_since, scoped, new_value, delay, exc, issued>>

\* test_concurrent_room_reservation: every user's request is out.
InitReservation ==
    /\ now = 0
    /\ store = [k \in Keys |-> NoEntry]
    /\ counter = 0
    /\ lock_key = [h \in Handles |-> "lock_a"]
    /\ acquired = [h \in Handles |-> FALSE]
    /\ pc = [h \in Handles |-> "post"]
    /\ blocking = [h \in Handles |-> FALSE]
    /\ wait = [h \in Handles |-> NoTimeout]
    /\ start_time = [h \in Handles |-> 0]
    /\ reply = [h \in Handles |-> FALSE]
    /\ wake = [h \in Handles |-> 0]
    /\ ret = [h \in Handles |-> "none"]
    /\ eval_saw = [h \in Handles |-> "none"]
    /\ lease_since = [k \in Keys |-> -1]
    /\ scoped = [h \in Handles |-> FALSE]
    /\ new_value = [h \in Handles |-> 0]
    /\ delay = 0
    /\ exc = [h \in Handles |-> "none"]
    /\ issued = [key \in Keys |-> {}]
    /\ harness = NoHarness

NextReservation ==
    \/ \E h \in Handles : \E outcome \in Outcomes : ReserveRoom(h, outcome)
    \/ AssessReservation

SpecReservation == InitReservation /\ [][NextReservation]_vars

\* ------------------------------------------- the detector on its own

\* The dicts handed to add_result: success true, success false, and a dict
\* without the key.
Dicts == {[success |-> TRUE], [success |-> FALSE], [user_id |-> 0]}

\* detector.add_result(result), for any dict.
DetectorAddResult(result) ==
    /\ harness.verdict = "none"
    /\ Len(harness.results) + harness.errors < MaxAttempts
    /\ harness' = AddResult(harness, result)
    /\ UNCHANGED <<now, store, counter, lock_key, acquired, pc, callvars, ret, eval_saw,
                   lease_since, scoped, new_value, delay, exc, issued>>

\* detector.add_error(e).
DetectorAddError ==
    /\ harness.verdict = "none"
    /\ Len(harness.results) + harness.errors < MaxAttempts
    /\ harness' = AddError(harness)
    /\ UNCHANGED <<now, store, counter, lock_key, acquired, pc, callvars, ret, eval_saw,
                   lease_since, scoped, new_value, delay, exc, issued>>

\* detector.analyze(): the caller gets the exception, or the report, of
\* which the model keeps race_conditions_detected.
DetectorAnalyze ==
    /\ harness.verdict = "none"
    /\ LET analysis == Analyze(harness.results, harness.errors)
       IN  harness' = [harness EXCEPT
                          !.verdict =
                              IF analysis.raised # "none" THEN "raised"
                              ELSE IF analysis.report.race_conditions_detected
                                   THEN "race" ELSE "clean"]
    /\ UNCHANGED <<now, store, counter, lock_key, acquired, pc, callvars, ret, eval_saw,
                   lease_since, scoped, new_value, delay, exc, issued>>

\* A new detector; no lock handle is in use.
InitDetector ==
    /\ now = 0
    /\ store = [k \in Keys |-> NoEntry]
    /\ counter = 0
    /\ lock_key = [h \in Handles |-> "lock_a"]
    /\ acquired = [h \in Handles |-> FALSE]
    /\ pc = [h \in Handles |-> "unused"]
    /\ blocking = [h \in Handles |-> FALSE]
    /\ wait = [h \in Handles |-> NoTimeout]
    /\ start_time = [h \in Handles |-> 0]
    /\ reply = [h \in Handles |-> FALSE]
    /\ wake = [h \in Handles |-> 0]
    /\ ret = [h \in Handles |-> "none"]
    /\ eval_saw = [h \in Handles |-> "none"]
    /\ lease_since = [k \in Keys |-> -1]
    /\ scoped = [h \in Handles |-> FALSE]
    /\ new_value = [h \in Handles |-> 0]
    /\ delay = 0
    /\ exc = [h \in Handles |-> "none"]
    /\ issued = [key \in Keys |-> {}]
    /\ harness = NoHarness

NextDetector ==
    \/ \E result \in Dicts : DetectorAddResult(result)
    \/ DetectorAddError
    \/ DetectorAnalyze

SpecDetector == InitDetector /\ [][NextDetector]_vars

\* ------------------------------------------- acquire modes with release

\* The two actors of InitAcquire with their roles fixed (handles differ only
\* by name), now free to release as well.
InitAcquireRelease ==
    /\ InitAcquire
    /\ pc[1] = "start"
    /\ pc[2] = "idle"

NextAcquireRelease ==
    \/ NextAcquire
    \/ \E h \in Handles : CallRelease(h)
    \/ \E h \in Handles : StoreEval(h)
    \/ \E h \in Handles : ReleaseResume(h)

SpecAcquireRelease == InitAcquireRelease /\ [][NextAcquireRelease]_vars

\* ------------------------------------------- a release the store fails

\* The call of redis.eval fails (line 80): the client raises, either without
\* the store having run the script or after it ran and the reply was lost.
EvalFails(h) ==
    /\ pc[h] = "release_eval"
    /\ \E executed \in BOOLEAN :
          /\ store' = IF executed THEN RedisEvalDel(lock_key[h], LockValue(h)) ELSE store
          /\ lease_since' = IF store'[lock_key[h]] # store[lock_key[h]]
                            THEN [lease_since EXCEPT ![lock_key[h]] = -1]
                            ELSE lease_since
    /\ pc' = [pc EXCEPT ![h] = "release_err"]
    /\ UNCHANGED <<now, counter, lock_key, acquired, callvars, ret, eval_saw, scoped,
                   new_value, delay, exc, issued, harness>>

\* A release() that clears the flag in a finally clause.
ReleaseRaiseClearsFlag(h) ==
    /\ pc[h] = "release_err"
    /\ acquired' = [acquired EXCEPT ![h] = FALSE]
    /\ ret' = [ret EXCEPT ![h] = "release_raised"]
    /\ exc' = [exc EXCEPT ![h] = "release"]
    /\ pc' = [pc EXCEPT ![h] = IF scoped[h] THEN "done" ELSE "idle"]
    /\ UNCHANGED <<now, store, counter, lock_key, callvars, eval_saw, lease_since,
                   scoped, new_value, delay, issued, harness>>

\* The coroutine resumes with the client's exception at the await of line
\* 80: release() has no handler, line 81 is not reached, and the exception
\* goes to the caller (through __aexit__, which has none either).
ReleaseRaise(h) ==
    /\ pc[h] = "release_err"
    /\ ret' = [ret EXCEPT ![h] = "release_raised"]
    /\ exc' = [exc EXCEPT ![h] = "release"]
    /\ pc' = [pc EXCEPT ![h] = IF scoped[h] THEN "done" ELSE "idle"]
    /\ UNCHANGED <<now, store, counter, lock_key, acquired, callvars, eval_saw,
                   lease_since, scoped, new_value, delay, issued, harness>>

\* Two actors on one key, free to call acquire() and release() as in Spec
\* (the roles fixed, since handles differ only by name).
InitReleaseFails ==
    /\ InitTwoKeys
    /\ pc[1] = "idle"
    /\ pc[2] = "idle"
    /\ \A h \in Handles : lock_key[h] = "lock_a"

\* The calls of Spec, with a store that may fail any release.
NextReleaseFails ==
    \/ Next
    \/ \E h \in Handles : EvalFails(h)
    \/ \E h \in Handles : ReleaseRaise(h)

SpecReleaseFails == InitReleaseFails /\ [][NextReleaseFails]_vars

\* ----------------------------------------------------------------- claims

SameKey(h1, h2) == lock_key[h1] = lock_key[h2]

\* The store executes a command of h in this step.
SetStep(h) == pc[h] = "acquire_set" /\ pc'[h] = "acquire_ret"
EvalStep(h) == pc[h] = "release_eval" /\ pc'[h] = "release_ret"
WriteStep(h) == pc[h] = "body_set" /\ pc'[h] # "body_set"

\* C1: for every key, at most one handle has acquired = true while the key's
\* entry exists and carries that handle's token.
C1_MutualExclusion ==
    \A k \in Keys :
        Cardinality({h \in Handles : /\ lock_key[h] = k
                                     /\ acquired[h]
                                     /\ store[k] # NoEntry
                                     /\ store[k].value = LockValue(h)}) <= 1

\* A handle holds the key while another handle's SET NX has just been refused.
C1_Witness ==
    \E h1, h2 \in Handles :
        /\ h1 # h2 /\ SameKey(h1, h2)
        /\ acquired[h1] /\ Owns(h1)
        /\ pc[h2] = "acquire_ret" /\ ~reply[h2]

\* C2: when every actor has made its one acquire(blocking=False) on the key
\* that was absent, with no release and no expiry in between, exactly one
\* call returned True and every other call returned False.
C2_ExactlyOneWinner ==
    (\A h \in Handles : pc[h] = "idle") =>
        /\ Cardinality({h \in Handles : ret[h] = "acquired"}) = 1
        /\ \A h \in Handles : ret[h] \in {"acquired", "busy"}

\* All calls have returned, one with True and one with False.
C2_Witness ==
    /\ \A h \in Handles : pc[h] = "idle"
    /\ \E h1, h2 \in Handles : ret[h1] = "acquired" /\ ret[h2] = "busy"

\* C3: the release script of a handle whose token is not the value stored
\* under the key leaves the store as it was: the other holder's token and
\* lease deadline are unchanged.
C3_StaleReleaseKeepsEntry ==
    [][\A h \in Handles :
          (EvalStep(h) /\ store[lock_key[h]] # NoEntry /\ ~Owns(h)) => store' = store]_vars

\* A script has run while the key carried another handle's token, and the
\* entry is still there.
C3_Witness ==
    \E h \in Handles :
        /\ pc[h] = "release_ret" /\ eval_saw[h] = "other"
        /\ store[lock_key[h]] # NoEntry /\ ~Owns(h)

\* C4 as stated: no two different handles of a key have acquired = true at
\* the same time (taken between calls, when neither handle is inside
\* acquire() or release()).
C4_FlagsDisjoint ==
    \A h1, h2 \in Handles :
        (h1 # h2 /\ SameKey(h1, h2) /\ pc[h1] = "idle" /\ pc[h2] = "idle")
            => ~(acquired[h1] /\ acquired[h2])

\* C4 as amended: the key's entry passes to a handle only in a step in which
\* the key is absent, so the intervals in which distinct handles own the
\* entry are disjoint (the acquired flags are not).
C4_EntryPassesOnlyWhenAbsent ==
    [][\A k \in Keys :
          (store'[k] # store[k] /\ store'[k] # NoEntry) => store[k] = NoEntry]_vars

\* The first holder's lease ran out without a release (its last call is the
\* acquire that returned True), a second handle owns the key, and both
\* flags are set.
C4_Witness ==
    \E h1, h2 \in Handles :
        /\ h1 # h2 /\ SameKey(h1, h2)
        /\ pc[h1] = "idle" /\ ret[h1] = "acquired" /\ acquired[h1]
        /\ acquired[h2] /\ Owns(h2)

C6_WriterOwnsLease ==
    [][\A h \in Handles : WriteStep(h) => Owns(h)]_vars

\* C6 as amended: the same, for a body shorter than the lease.
C6_WriterOwnsLeaseShortBody ==
    [][\A h \in Handles : (WriteStep(h) /\ delay < LockTimeout) => Owns(h)]_vars

\* A worker whose body was shorter than the lease has written the counter
\* and still owns the key, while another worker waits for it.
C6_Witness ==
    \E h1, h2 \in Handles :
        /\ delay < LockTimeout
        /\ pc[h1] = "release_eval" /\ Owns(h1) /\ counter >= 1
        /\ pc[h2] = "acquire_sleep"

\* C7: a SET NX on a key whose last holder has not released succeeds only
\* when the lease has run its full length since that holder's acquisition.
C7_NoEarlyReacquire ==
    [][\A h \in Handles :
          (SetStep(h) /\ reply'[h] /\ lease_since[lock_key[h]] # -1)
              => now >= lease_since[lock_key[h]] + LockTimeout]_vars

\* A second handle's SET NX has succeeded after the first holder, which
\* never called release, held the key for the lease.
C7_Witness ==
    \E h1, h2 \in Handles :
        /\ h1 # h2 /\ SameKey(h1, h2)
        /\ pc[h1] = "idle" /\ ret[h1] = "acquired" /\ acquired[h1]
        /\ pc[h2] = "acquire_ret" /\ reply[h2]
        /\ now >= LockTimeout

\* The actor is in the retry loop of a blocking acquire().
Retrying(h) ==
    /\ blocking[h]
    /\ pc[h] \in {"acquire_set", "acquire_ret", "acquire_sleep"}

\* C8: an actor retrying at the retry interval while the holder never
\* releases is not kept waiting later than lease + retry interval after the
\* holder's acquisition, and it eventually acquires.
C8_Recovery ==
    /\ [](\A h \in Handles :
             LET since == lease_since[lock_key[h]]
             IN (/\ Retrying(h) /\ ~reply[h]
                 /\ since # -1
                 /\ start_time[h] <= since + LockTimeout + RetryInterval)
                    => now <= since + LockTimeout + RetryInterval)
    /\ \A h \in Handles : Retrying(h) ~> acquired[h]

\* The retrying actor was refused while the holder's lease ran, and owns the
\* key now; the holder made no call after its acquire.
C8_Witness ==
    \E h1, h2 \in Handles :
        /\ h1 # h2
        /\ pc[h1] = "idle" /\ ret[h1] = "acquired" /\ ~Owns(h1)
        /\ pc[h2] = "idle" /\ ret[h2] = "acquired" /\ Owns(h2)
        /\ now <= LockTimeout + RetryInterval

\* C9: a release() on a handle whose flag is not set (released before, or
\* never acquired) returns and changes neither the store nor any handle, and
\* the script of a release() after the lease ran out changes no entry.
C9_ReleaseIdempotent ==
    [][\A h \in Handles :
          /\ (pc[h] = "idle" /\ ~acquired[h] /\ ret[h] # "not_held"
                 /\ ret'[h] = "not_held")
                => (store' = store /\ acquired' = acquired /\ pc' = pc)
          /\ (EvalStep(h) /\ ~Owns(h)) => store' = store]_vars

\* A release() returned at the flag test while another handle holds the key.
C9_Witness ==
    \E h1, h2 \in Handles :
        /\ h1 # h2 /\ SameKey(h1, h2)
        /\ pc[h1] = "idle" /\ ret[h1] = "not_held"
        /\ acquired[h2] /\ Owns(h2)

\* C10: after release() has returned, the handle's flag is not set, whether
\* the script deleted the handle's entry or found the key absent or carrying
\* another token.
C10_ReleaseClearsFlag ==
    \A h \in Handles : ret[h] \in {"released", "not_held"} => ~acquired[h]

\* A release() whose script found another handle's token has returned.
C10_Witness ==
    \E h \in Handles :
        /\ pc[h] = "idle" /\ ret[h] = "released" /\ eval_saw[h] = "other"
        /\ ~acquired[h]

\* C11: when `async with lock` is over, by the body's return or by an
\* exception of the body, release() has run: the handle's flag is not set
\* and the key does not carry the handle's token; a script that found the
\* handle's token deleted the key.
C11_ReleaseOnEveryExit ==
    /\ [](\A h \in Handles :
             pc[h] = "done" => (ret[h] = "released" /\ ~acquired[h] /\ ~Owns(h)))
    /\ [][\A h \in Handles :
             (EvalStep(h) /\ Owns(h)) => store'[lock_key[h]] = NoEntry]_vars

\* One actor's body raised and another's returned; both are out of the
\* block, and the script of the one that raised found its token.
C11_Witness ==
    \E h1, h2 \in Handles :
        /\ pc[h1] = "done" /\ exc[h1] = "body" /\ eval_saw[h1] = "own"
        /\ pc[h2] = "done" /\ exc[h2] = "none" /\ ret[h2] = "released"

\* C12: an actor of a scoped use that was cancelled after its SET NX had
\* succeeded at the store has removed its entry when it is gone: the key
\* does not carry the token of a cancelled actor that has ended.
C12_CancelledStillReleases ==
    \A h \in Handles : (pc[h] = "done" /\ exc[h] = "cancel") => ~Owns(h)

\* The store fails the handle's SET NX; the coroutine resumes with the error.
ErrStep(h) == pc[h] = "acquire_set" /\ pc'[h] = "acquire_err"
RaiseStep(h) == pc[h] = "acquire_err" /\ pc'[h] # "acquire_err"

\* C13: when the store cannot be reached for the SET NX of acquire(), the
\* call ends by raising, which is neither of its False returns, in blocking
\* and non-blocking mode alike and without another attempt; the handle's
\* flag and the store stay as they were.
C13_StoreErrorSurfaces ==
    /\ [][\A h \in Handles :
             /\ ErrStep(h) => (store' = store /\ acquired' = acquired)
             /\ RaiseStep(h) => /\ pc'[h] = "idle"
                                /\ ret'[h] = "raised"
                                /\ store' = store
                                /\ acquired' = acquired]_vars
    /\ [](\A h \in Handles : pc[h] = "acquire_err" => ret[h] = "none")

\* A blocking and a non-blocking acquire() have both ended by raising, and
\* neither handle's flag is set.
C13_Witness ==
    \E h1, h2 \in Handles :
        /\ pc[h1] = "idle" /\ ret[h1] = "raised" /\ blocking[h1] /\ ~acquired[h1]
        /\ pc[h2] = "idle" /\ ret[h2] = "raised" /\ ~blocking[h2] /\ ~acquired[h2]

\* The coroutine of acquire() resumes with the store's reply in this step.
ResumeStep(h) == pc[h] = "acquire_ret" /\ pc'[h] # "acquire_ret"

\* C14: acquire(blocking=False) sends its SET NX at the call and at no other
\* moment, the store answers True exactly when the key is absent, and the
\* call returns that answer when it resumes, without sleeping or retrying.
C14_NonBlockingOneAttempt ==
    /\ [][\A h \in Handles :
             /\ (~blocking'[h] /\ pc[h] # "acquire_set" /\ pc'[h] = "acquire_set")
                    => pc[h] \in {"idle", "start"}
             /\ (~blocking[h] /\ SetStep(h))
                    => reply'[h] = (store[lock_key[h]] = NoEntry)
             /\ (~blocking[h] /\ ResumeStep(h))
                    => /\ pc'[h] = "idle"
                       /\ ret'[h] = IF reply[h] THEN "acquired" ELSE "busy"
                       /\ acquired'[h] = (acquired[h] \/ reply[h])]_vars
    /\ [](\A h \in Handles : pc[h] = "acquire_sleep" => blocking[h])

\* The first actor's call returned True on the absent key and the second
\* actor's acquire(blocking=False) has returned False while that entry is
\* there.
C14_Witness ==
    \E h1, h2 \in Handles :
        /\ h1 # h2
        /\ pc[h1] = "idle" /\ ret[h1] = "acquired" /\ Owns(h1)
        /\ pc[h2] = "idle" /\ ret[h2] = "busy" /\ ~blocking[h2] /\ ~acquired[h2]

\* C15: a blocking acquire() with a wait timeout T >= 0, T = 0 included,
\* returns False at the first refused attempt made when T has elapsed since
\* the call.
C15_BoundedWait ==
    [][\A h \in Handles :
          (/\ ResumeStep(h) /\ blocking[h] /\ ~reply[h]
           /\ wait[h] # NoTimeout
           /\ now - start_time[h] >= wait[h])
              => (pc'[h] = "idle" /\ ret'[h] = "timed_out")]_vars

\* The last return of acquire() was one of its two `return False`.
ReturnedFalse(h) == ret[h] \in {"busy", "timed_out"}

\* C16: acquire() returns False only from a refused attempt, and then only
\* in non-blocking mode or in blocking mode with a wait timeout that is set
\* and has elapsed; a blocking acquire() without wait timeout returns only
\* with True, after its own SET NX succeeded.
C16_FalseOnlyWhenDeniedOrTimedOut ==
    [][\A h \in Handles :
          /\ (~ReturnedFalse(h) /\ ReturnedFalse(h)')
                 => /\ ResumeStep(h) /\ ~reply[h]
                    /\ \/ ~blocking[h] /\ ret'[h] = "busy"
                       \/ /\ blocking[h] /\ ret'[h] = "timed_out"
                          /\ wait[h] # NoTimeout
                          /\ now - start_time[h] >= wait[h]
          /\ (ResumeStep(h) /\ blocking[h] /\ wait[h] = NoTimeout /\ pc'[h] = "idle")
                 => (reply[h] /\ ret'[h] = "acquired" /\ acquired'[h])]_vars

\* A blocking acquire() with a wait timeout has returned False, its timeout
\* elapsed, while the first actor's entry is still under the key.
C16_Witness ==
    \E h1, h2 \in Handles :
        /\ h1 # h2
        /\ Owns(h1) /\ acquired[h1]
        /\ pc[h2] = "idle" /\ ret[h2] = "timed_out" /\ ~acquired[h2]
        /\ now >= 1

\* The handle's call moves in this step: it is issued, served by the store,
\* resumed or returns.
StepOf(h) == pc'[h] # pc[h] \/ ret'[h] # ret[h]

\* C17: a step of a call on one key leaves the entry of every other key and
\* the flag of every handle of another key as they were; when time passes a
\* key goes only by its own deadline and no flag changes; the SET NX of a
\* non-blocking acquire succeeds exactly when its own key is absent.
C17_KeysIndependent ==
    [][/\ \A h \in Handles : \A k \in Keys \ {lock_key[h]} :
              StepOf(h) => /\ store'[k] = store[k]
                           /\ \A g \in Handles :
                                  lock_key[g] = k => acquired'[g] = acquired[g]
       /\ now' # now =>
              /\ acquired' = acquired
              /\ \A k \in Keys :
                     store'[k] # store[k] => store[k].expireAt <= now'
       /\ \A h \in Handles :
              (SetStep(h) /\ ~blocking[h])
                  => reply'[h] = (store[lock_key[h]] = NoEntry)]_vars

\* While one actor holds lock_a, the store has accepted the SET NX of the
\* other's acquire(blocking=False) on the absent lock_b.
C17_Witness ==
    \E h1, h2 \in Handles :
        /\ lock_key[h1] = "lock_a" /\ lock_key[h2] = "lock_b"
        /\ acquired[h1] /\ Owns(h1)
        /\ pc[h2] = "acquire_ret" /\ ~blocking[h2] /\ reply[h2] /\ Owns(h2)

\* How far the actor's `async with` has come: 0 in acquire(), 1 in the body,
\* 2 in release(), 3 when it is over.
Phase(h) ==
    IF pc[h] \in {"acquire_set", "acquire_ret", "acquire_sleep"} THEN 0
    ELSE IF pc[h] \in {"body_get", "body_sleep", "body_set"} THEN 1
    ELSE IF pc[h] \in {"release_eval", "release_ret"} THEN 2
    ELSE 3

\* C18: of the workers that each run one `async with lock` with a body
\* shorter than the lease, on one key or spread over several, every one
\* enters its body, enters it once (it never goes back to acquire() or to
\* the body), and in the end all of them are done.
C18_EveryWorkerEntersOnce ==
    /\ \A h \in Handles : <>(Phase(h) = 1)
    /\ [][\A h \in Handles : Phase(h)' \in {Phase(h), Phase(h) + 1}]_vars
    /\ <>[](\A h \in Handles : pc[h] = "done")

\* All workers are done, two that contended for one key and one of another
\* key among them, and each left its key released.
C18_Witness ==
    /\ \A h \in Handles : pc[h] = "done" /\ ret[h] = "released" /\ eval_saw[h] = "own"
    /\ \E h1, h2, h3 \in Handles :
           h1 # h2 /\ SameKey(h1, h2) /\ ~SameKey(h1, h3)

\* C19: the script of a release() by the handle whose token is under the
\* key removes the key; the key then stays absent until the next SET NX on
\* it, and that SET NX, whichever handle and mode it comes from, succeeds.
C19_ReleaseHandsOver ==
    /\ [][\A h \in Handles :
             /\ (EvalStep(h) /\ Owns(h))
                    => (store'[lock_key[h]] = NoEntry /\ lease_since'[lock_key[h]] = -1)
             /\ (SetStep(h) /\ lease_since[lock_key[h]] = -1) => reply'[h]]_vars
    /\ [](\A k \in Keys : lease_since[k] = -1 => store[k] = NoEntry)

\* The owner released before its lease ran out, and the store has accepted
\* the SET NX of another handle's acquire(blocking=False).
C19_Witness ==
    \E h1, h2 \in Handles :
        /\ h1 # h2 /\ SameKey(h1, h2)
        /\ pc[h1] = "idle" /\ ret[h1] = "released" /\ eval_saw[h1] = "own"
        /\ pc[h2] = "acquire_ret" /\ ~blocking[h2] /\ reply[h2] /\ Owns(h2)
        /\ now < LockTimeout

\* C20: the token written by a successful SET NX is none of the tokens
\* written under the same key before, the handle's own earlier ones
\* included.
C20_FreshTokenPerAcquire ==
    [][\A h \in Handles :
          (SetStep(h) /\ reply'[h])
              => store'[lock_key[h]].value \notin issued[lock_key[h]]]_vars

\* C21: when all unprotected workers have finished, the counter is strictly
\* below their number.
C21_UnprotectedAlwaysLoses ==
    (\A h \in Handles : pc[h] = "done") => counter < NumHandles

\* C22: the double-booking harness passes a run only if every room was
\* booked by exactly one user.
C22_PassMeansOneWinnerPerRoom ==
    harness.verdict = "pass" => \A room \in Rooms : harness.booked[room] = 1


\* The entries of the detector's results that user h added.
ResultsOf(h) ==
    {i \in 1..Len(harness.results) : harness.results[i].user_id = h}

\* C23: in the reservation run every user is recorded exactly once, as a
\* result or as an exception; when all have returned, analyze() reports
\* total_attempts = N = successful + failed + exceptions, and a user that
\* raised has no result, so it is not among the failed.
C23_EveryActorRecordedOnce ==
    /\ \A h \in Handles :
          /\ pc[h] = "post" => ResultsOf(h) = {} /\ exc[h] = "none"
          /\ pc[h] = "recorded" =>
                Cardinality(ResultsOf(h)) = (IF exc[h] = "request" THEN 0 ELSE 1)
    /\ harness.errors = Cardinality({h \in Handles : exc[h] = "request"})
    /\ (\A h \in Handles : pc[h] = "recorded") =>
          LET analysis == Analyze(harness.results, harness.errors).report
          IN  /\ analysis.total_attempts = NumHandles
              /\ analysis.total_attempts =
                    analysis.successful + analysis.failed + analysis.exceptions
              /\ analysis.exceptions = Cardinality({h \in Handles : exc[h] = "request"})
              /\ analysis.failed =
                    Cardinality({i \in 1..Len(harness.results) :
                                    ~harness.results[i].success})

\* All users have returned: one succeeded, one lost, one raised.
C23_Witness ==
    /\ \A h \in Handles : pc[h] = "recorded"
    /\ \E h \in Handles : exc[h] = "request"
    /\ \E i, j \in 1..Len(harness.results) :
          harness.results[i].success /\ ~harness.results[j].success
    /\ harness.verdict # "none"


\* The recorded results that carry success = true.
TrueResults ==
    {i \in 1..Len(harness.results) :
        "success" \in DOMAIN harness.results[i] /\ harness.results[i].success}

\* C24: the report of analyze() has race_conditions_detected = true exactly
\* when more than one recorded result has success = true, whatever add_result
\* and add_error calls came before.
C24_RaceFlagIffManySuccesses ==
    harness.verdict \in {"race", "clean"} =>
        (harness.verdict = "race" <=> Cardinality(TrueResults) > 1)

\* analyze() has reported a race after two successes, a failure and an
\* error were recorded.
C24_Witness ==
    /\ harness.verdict = "race"
    /\ Cardinality(TrueResults) = 2
    /\ Len(harness.results) = 3
    /\ harness.errors = 1


\* The unprotected workers that have written their value.
UnsafeDone == {h \in Handles : pc[h] = "done"}

C26_FailedSetChangesNothing ==
    [][/\ \A h \in Handles :
              /\ (SetStep(h) /\ store[lock_key[h]] # NoEntry)
                    => (~reply'[h] /\ store' = store /\ acquired' = acquired)
              /\ (ResumeStep(h) /\ ~reply[h])
                    => (store' = store /\ acquired' = acquired)
       /\ \A k \in Keys :
              (store[k] # NoEntry /\ store'[k] # NoEntry) => store'[k] = store[k]
      ]_vars

\* A handle has given up on its wait timeout while the key still carries
\* another handle's token, and that handle's flag is set.
C26_Witness ==
    \E h, other \in Handles :
        /\ h # other
        /\ ret[h] = "timed_out"
        /\ pc[h] = "idle"
        /\ store[lock_key[h]].value = LockValue(other)
        /\ acquired[other]


\* C27: a handle's flag goes from false to true only when its coroutine
\* resumes with a True reply; a reply becomes True only in the handle's own
\* SET NX step, and that step found the key absent and left it with the
\* handle's token.
C27_FlagSetOnlyByOwnSet ==
    [][\A h \in Handles :
          /\ (~acquired[h] /\ acquired'[h]) => (ResumeStep(h) /\ reply[h])
          /\ (~reply[h] /\ reply'[h]) => SetStep(h)
          /\ (SetStep(h) /\ reply'[h])
                => /\ store[lock_key[h]] = NoEntry
                   /\ store'[lock_key[h]].value = LockValue(h)
      ]_vars

\* A handle has returned True from acquire() with its flag set and holds the
\* key, after the other actor released.
C27_Witness ==
    \E h, other \in Handles :
        /\ h # other
        /\ pc[h] = "idle"
        /\ ret[h] = "acquired"
        /\ acquired[h]
        /\ Owns(h)
        /\ ret[other] = "released"
        /\ ~acquired[other]


\* C28: a worker passes from acquire() into the body of its `async with`
\* only at the resume of an own SET NX that the store answered True, with its
\* flag set and acquire() returning True; the acquire() of __aenter__ never
\* returns False.
C28_BodyOnlyAfterOwnSet ==
    /\ [][\A h \in Handles :
             (Phase(h) = 0 /\ Phase(h)' = 1)
                => /\ ResumeStep(h)
                   /\ reply[h]
                   /\ acquired'[h]
                   /\ ret'[h] = "acquired"
         ]_vars
    /\ [](\A h \in Handles : ~ReturnedFalse(h))

\* A worker is at the start of its body and holds the key while another
\* worker, refused, sleeps before its retry.
C28_Witness ==
    \E h, other \in Handles :
        /\ pc[h] = "body_get"
        /\ ret[h] = "acquired"
        /\ Owns(h)
        /\ pc[other] = "acquire_sleep"


\* The store call of release() fails, and the exception leaves release().
EvalErrStep(h) == pc[h] = "release_eval" /\ pc'[h] = "release_err"
ReleaseRaiseStep(h) == pc[h] = "release_err" /\ pc'[h] # "release_err"

\* C29: when the store call of release() fails, release() ends by raising
\* and the handle's flag stays set; the flag is cleared only by a release
\* whose store call returned, and a release() called while the flag is set
\* never returns at once but sends the script.
C29_FailedReleaseKeepsFlag ==
    /\ [][\A h \in Handles :
             /\ EvalErrStep(h) => acquired' = acquired
             /\ ReleaseRaiseStep(h)
                   => /\ ret'[h] = "release_raised"
                      /\ acquired'[h]
                      /\ acquired' = acquired
                      /\ store' = store
             /\ (acquired[h] /\ ~acquired'[h])
                   => (pc[h] = "release_ret" /\ pc'[h] # "release_ret")
             /\ (acquired[h] /\ pc[h] = "idle" /\ ret'[h] # ret[h])
                   => ret'[h] # "not_held"
         ]_vars
    /\ [](\A h \in Handles : pc[h] \in {"release_eval", "release_err"} => acquired[h])

\* After a release() that raised, a later release() of the same handle has
\* sent the script, which found the handle's token and deleted the entry.
C29_Witness ==
    \E h \in Handles :
        /\ exc[h] = "release"
        /\ pc[h] = "release_ret"
        /\ eval_saw[h] = "own"
        /\ acquired[h]
        /\ store[lock_key[h]] = NoEntry


\* The handle is inside a call of acquire().
InAcquire(h) == pc[h] \in {"acquire_set", "acquire_ret", "acquire_sleep"}

\* C30: a SET NX of a handle whose own entry is in the store is refused and
\* changes nothing; the refused attempt leaves the handle's flag as it was,
\* returns False in non-blocking mode and sleeps for a retry in blocking mode
\* without wait timeout; and while the handle is inside acquire() its own
\* entry goes only by running out, so no attempt succeeds before that.
C30_NotReentrant ==
    [][\A h \in Handles :
          /\ (SetStep(h) /\ Owns(h))
                => (~reply'[h] /\ store' = store /\ acquired' = acquired)
          /\ (ResumeStep(h) /\ ~reply[h])
                => /\ acquired'[h] = acquired[h]
                   /\ ~blocking[h] => (ret'[h] = "busy" /\ pc'[h] = "idle")
                   /\ (blocking[h] /\ wait[h] = NoTimeout) => pc'[h] = "acquire_sleep"
          /\ (InAcquire(h) /\ Owns(h) /\ ~Owns(h)')
                => /\ now' = now + 1
                   /\ store[lock_key[h]].expireAt <= now'
          /\ (SetStep(h) /\ reply'[h]) => ~Owns(h)
      ]_vars

\* A handle that holds the key with its flag set has called
\* acquire(blocking=False) again and got False; its entry and flag are as
\* before.
C30_Witness ==
    \E h \in Handles :
        /\ pc[h] = "idle"
        /\ ret[h] = "busy"
        /\ acquired[h]
        /\ Owns(h)


\* C31: analyze() returns a report, and raises nothing, in every state of
\* the detector that add_result and add_error calls can produce, the new
\* detector with nothing recorded included.
C31_AnalyzeAlwaysReports ==
    harness.verdict # "raised"

====
